---- MODULE Spec2Model ----
(***************************************************************************)
(* Model of cmd/haproxyctl/models.go: the HAProxyConfig constructor with   *)
(* its functional options and the guarded transport setup, the Duration   *)
(* CSV conversions, and the Statistic record schema.                      *)
(*                                                                         *)
(* Strings are sequences of one-character strings, so that trimming,       *)
(* parsing and formatting are computed character by character.             *)
(***************************************************************************)
EXTENDS Integers, Sequences, FiniteSets, TLC

(***************************************************************************)
(* Bounds of the model.                                                    *)
(***************************************************************************)
\* longest enumerated base URL string
MaxUrlLen == 3
\* longest enumerated option list
MaxOpts == 2
\* setupClient calls each concurrent caller makes after construction
MaxCalls == 2

(***************************************************************************)
(* Generic string helpers (package strings).                               *)
(***************************************************************************)
Str(S, n) == UNION {[1..k -> S] : k \in 0..n}

Last(s) == s[Len(s)]

Front(s) == SubSeq(s, 1, Len(s) - 1)

HasPrefix(s, p) == Len(s) >= Len(p) /\ SubSeq(s, 1, Len(p)) = p

Drop(s, n) == SubSeq(s, n + 1, Len(s))

\* strings.Index(s, ch) for a one-byte separator, 1-based; 0 when absent
Index(s, ch) ==
    IF \E i \in 1..Len(s) : s[i] = ch
    THEN CHOOSE i \in 1..Len(s) : s[i] = ch /\ \A j \in 1..(i - 1) : s[j] # ch
    ELSE 0

\* strings.LastIndex(s, ch), 1-based; 0 when absent
LastIndex(s, ch) ==
    IF \E i \in 1..Len(s) : s[i] = ch
    THEN CHOOSE i \in 1..Len(s) : s[i] = ch /\ \A j \in (i + 1)..Len(s) : s[j] # ch
    ELSE 0

RECURSIVE TrimRightAll(_, _)
TrimRightAll(s, ch) ==
    IF s # <<>> /\ Last(s) = ch THEN TrimRightAll(Front(s), ch) ELSE s

\* a plausible slip: strings.TrimSuffix, which removes at most one slash
TrimRightOnce(s, ch) ==
    IF s # <<>> /\ Last(s) = ch THEN Front(s) ELSE s

\* strings.TrimRight(s, cutset) for a one-character cutset
TrimRight(s, ch) == TrimRightAll(s, ch)

(***************************************************************************)
(* net/url as used by NewHAProxyConfig, over the alphabet below: a letter, *)
(* a digit, the colon, the slash and one ASCII control byte.  Userinfo,    *)
(* query, fragment and percent escapes need characters outside it.         *)
(***************************************************************************)
Letters == {"a", "h", "t", "p", "o", "s", "c", "v"}
Digits == {"8", "0"}
CTL == "DEL"
UrlAlphabet == {"/", "a", ":", "8", CTL}

NilErr == [kind |-> "nil", arg |-> <<>>]
Err(k, a) == [kind |-> k, arg |-> a]

ZeroURL == [Scheme |-> <<>>, Opaque |-> <<>>, Host |-> <<>>, Path |-> <<>>,
            OmitHost |-> FALSE]

\* getScheme: (scheme, rest, err) of rawURL
RECURSIVE getSchemeFrom(_, _)
getSchemeFrom(raw, i) ==
    IF i > Len(raw) THEN [scheme |-> <<>>, rest |-> raw, err |-> NilErr]
    ELSE IF raw[i] \in Letters THEN getSchemeFrom(raw, i + 1)
    ELSE IF raw[i] \in Digits
         THEN IF i = 1 THEN [scheme |-> <<>>, rest |-> raw, err |-> NilErr]
              ELSE getSchemeFrom(raw, i + 1)
    ELSE IF raw[i] = ":"
         THEN IF i = 1
              THEN [scheme |-> <<>>, rest |-> <<>>,
                    err |-> Err("missing protocol scheme", raw)]
              ELSE [scheme |-> SubSeq(raw, 1, i - 1), rest |-> Drop(raw, i),
                    err |-> NilErr]
    ELSE [scheme |-> <<>>, rest |-> raw, err |-> NilErr]

getScheme(raw) == getSchemeFrom(raw, 1)

\* validOptionalPort: "" or ":" followed by digits only
validOptionalPort(port) ==
    \/ port = <<>>
    \/ /\ port[1] = ":"
       /\ \A i \in 2..Len(port) : port[i] \in Digits

\* parseHost: the part after the last colon must be a valid optional port
parseHostErr(host) ==
    LET i == LastIndex(host, ":") IN
    IF i # 0 /\ ~validOptionalPort(Drop(host, i - 1))
    THEN Err("invalid port after host", host)
    ELSE NilErr

\* url.Parse (parse with viaRequest = false), no fragment, no query
Parse(raw) ==
    IF \E i \in 1..Len(raw) : raw[i] = CTL
    THEN [url |-> ZeroURL, err |-> Err("invalid control character in URL", raw)]
    ELSE
    LET gs == getScheme(raw)
        rest == gs.rest
    IN
    IF gs.err # NilErr THEN [url |-> ZeroURL, err |-> gs.err]
    ELSE IF ~HasPrefix(rest, <<"/">>) /\ gs.scheme # <<>>
    THEN [url |-> [ZeroURL EXCEPT !.Scheme = gs.scheme, !.Opaque = rest],
          err |-> NilErr]
    ELSE IF /\ ~HasPrefix(rest, <<"/">>)
            /\ LET k == Index(rest, "/")
                   segment == IF k = 0 THEN rest ELSE SubSeq(rest, 1, k - 1)
               IN  Index(segment, ":") # 0
    THEN [url |-> ZeroURL,
          err |-> Err("first path segment in URL cannot contain colon", raw)]
    ELSE IF /\ gs.scheme # <<>> \/ ~HasPrefix(rest, <<"/", "/", "/">>)
            /\ HasPrefix(rest, <<"/", "/">>)
    THEN LET auth0 == Drop(rest, 2)
             i == Index(auth0, "/")
             authority == IF i = 0 THEN auth0 ELSE SubSeq(auth0, 1, i - 1)
             path == IF i = 0 THEN <<>> ELSE Drop(auth0, i - 1)
             herr == parseHostErr(authority)
         IN  IF herr # NilErr THEN [url |-> ZeroURL, err |-> herr]
             ELSE [url |-> [ZeroURL EXCEPT !.Scheme = gs.scheme,
                                           !.Host = authority, !.Path = path],
                   err |-> NilErr]
    ELSE [url |-> [ZeroURL EXCEPT !.Scheme = gs.scheme, !.Path = rest,
                                  !.OmitHost = (gs.scheme # <<>>
                                                /\ HasPrefix(rest, <<"/">>))],
          err |-> NilErr]

\* (*URL).String
URLString(u) ==
    LET scheme == IF u.Scheme # <<>> THEN u.Scheme \o <<":">> ELSE <<>>
        slashes == IF /\ u.Scheme # <<>> \/ u.Host # <<>>
                      /\ ~(u.OmitHost /\ u.Host = <<>>)
                      /\ u.Host # <<>> \/ u.Path # <<>>
                   THEN <<"/", "/">> \o u.Host ELSE <<>>
        sep == IF u.Path # <<>> /\ u.Path[1] # "/" /\ u.Host # <<>>
               THEN <<"/">> ELSE <<>>
        dot == IF /\ scheme = <<>> /\ slashes = <<>> /\ sep = <<>>
                  /\ LET k == Index(u.Path, "/")
                         segment == IF k = 0 THEN u.Path
                                    ELSE SubSeq(u.Path, 1, k - 1)
                     IN  Index(segment, ":") # 0
               THEN <<".", "/">> ELSE <<>>
    IN  IF u.Opaque # <<>> THEN scheme \o u.Opaque
        ELSE scheme \o slashes \o sep \o dot \o u.Path

(***************************************************************************)
(* HAProxyConfig, its options and its constructor.                         *)
(***************************************************************************)
VARIABLES
    proxyUrl,   \* NewHAProxyConfig's first argument
    opts,       \* NewHAProxyConfig's option list
    injected,   \* the settings of the caller's pre-built http.Client
    pc,         \* position of the constructor (thread 0) and of each caller
    idx,        \* index of the next option the constructor applies
    applied,    \* indices of the options that were invoked, in order
    c,          \* the HAProxyConfig the constructor allocates
    clients,    \* heap of http.Client values, by handle (0 is nil)
    ret,        \* what NewHAProxyConfig returned
    writes,     \* number of stores to the config and its transport, by field
    calls,      \* setupClient calls started by each caller
    \* a Duration field and the CSV cells decoded into it
    pending,    \* the cells still to be decoded into the Duration, in order
    decodes,    \* number of UnmarshalCSV calls made on the Duration
    cell,       \* the cell of the last UnmarshalCSV call
    prev,       \* the Duration's value before the last UnmarshalCSV call
    date,       \* the Duration's value
    derr,       \* whether the last UnmarshalCSV call returned an error
    out,        \* the last MarshalCSV result, <<>> when there is none
    shown,      \* the last String result, <<>> when there is none
    \* a stats payload and its decoding
    header,     \* the header row: column names
    rows,       \* the data rows, each a row of cells in header order
    stats,      \* the decoded Statistics
    cerr,       \* whether decoding failed
    cdone       \* whether the payload was decoded

durVars == <<pending, decodes, cell, prev, date, derr, out, shown>>

csvVars == <<header, rows, stats, cerr, cdone>>

cfgVars == <<proxyUrl, opts, injected, pc, idx, applied, c, clients, ret,
             writes, calls>>

vars == <<cfgVars, durVars, csvVars>>

Callers == {1, 2}
Threads == {0} \cup Callers

\* the handle of the http.Client a caller may inject; nil is 0
Nil == 0
Injected == 1

\* http.Client{}: no redirect policy, no timeout
ZeroClient == [CheckRedirect |-> "nil", Timeout |-> 0]

\* &HAProxyConfig{URL: *endpoint}
NewConfig(endpoint) ==
    [URL |-> endpoint, StatsPath |-> <<>>, Username |-> <<>>,
     Password |-> <<>>, client |-> Nil, setupdone |-> FALSE]

ZeroWrites ==
    [f \in {"StatsPath", "Username", "Password", "client", "alloc",
            "setupdone", "CheckRedirect"} |-> 0]

WithStatsPath(path) == [kind |-> "WithStatsPath", a |-> path, b |-> <<>>, h |-> Nil]
WithAuthString(auth) == [kind |-> "WithAuthString", a |-> auth, b |-> <<>>, h |-> Nil]
WithAuthInfo(user, pass) == [kind |-> "WithAuthInfo", a |-> user, b |-> pass, h |-> Nil]
WithHttpClient(client) == [kind |-> "WithHttpClient", a |-> <<>>, b |-> <<>>, h |-> client]

\* SetCredentialsFromAuthString: "user:pass", an error without the separator
SetCredentialsFromAuthString(cfg, auth) ==
    LET i == Index(auth, ":") IN
    IF i = 0
    THEN [cfg |-> cfg, err |-> Err("malformed auth string", auth)]
    ELSE [cfg |-> [cfg EXCEPT !.Username = SubSeq(auth, 1, i - 1),
                              !.Password = Drop(auth, i)],
          err |-> NilErr]

\* opt(c): the config after the option ran, and the option's error
RunOption(opt, cfg) ==
    CASE opt.kind = "WithStatsPath" ->
            [cfg |-> [cfg EXCEPT !.StatsPath = opt.a], err |-> NilErr]
      [] opt.kind = "WithAuthString" ->
            SetCredentialsFromAuthString(cfg, opt.a)
      [] opt.kind = "WithAuthInfo" ->
            [cfg |-> [cfg EXCEPT !.Username = opt.a, !.Password = opt.b],
             err |-> NilErr]
      [] opt.kind = "WithHttpClient" ->
            [cfg |-> [cfg EXCEPT !.client = opt.h], err |-> NilErr]

\* the fields an option stores to
OptionStores(opt) ==
    CASE opt.kind = "WithStatsPath" -> {"StatsPath"}
      [] opt.kind = "WithAuthString" ->
            IF Index(opt.a, ":") = 0 THEN {} ELSE {"Username", "Password"}
      [] opt.kind = "WithAuthInfo" -> {"Username", "Password"}
      [] opt.kind = "WithHttpClient" -> {"client"}

Bump(w, fields) == [f \in DOMAIN w |-> IF f \in fields THEN w[f] + 1 ELSE w[f]]

\* line 15-21: normalise and parse the base URL, allocate the config
CtorParse ==
    /\ pc[0] = "Parse"
    /\ LET r == Parse(TrimRight(proxyUrl, "/") \o <<"/">>) IN
       IF r.err # NilErr
       THEN /\ ret' = [cfg |-> "nil", err |-> r.err]
            /\ pc' = [pc EXCEPT ![0] = "Failed"]
            /\ c' = c
       ELSE /\ c' = NewConfig(r.url)
            /\ pc' = [pc EXCEPT ![0] = "Opts"]
            /\ ret' = ret
    /\ UNCHANGED <<proxyUrl, opts, injected, idx, applied, clients, writes,
                   calls>>
    /\ UNCHANGED <<durVars, csvVars>>

\* having run option i with error err, where the constructor goes next
AbortOnError(err) == err # NilErr

\* a plausible slip: the option's error is dropped
AbortNever(err) == FALSE

\* line 23: whether the loop body returns
OptionAborts(err) == AbortOnError(err)

\* line 22-26: one iteration of the option loop
CtorOption ==
    /\ pc[0] = "Opts"
    /\ idx <= Len(opts)
    /\ LET r == RunOption(opts[idx], c) IN
       /\ c' = r.cfg
       /\ applied' = Append(applied, idx)
       /\ writes' = Bump(writes, OptionStores(opts[idx]))
       /\ IF OptionAborts(r.err)
          THEN /\ ret' = [cfg |-> "nil", err |-> r.err]
               /\ pc' = [pc EXCEPT ![0] = "Failed"]
               /\ idx' = idx
          ELSE /\ idx' = idx + 1
               /\ UNCHANGED <<ret, pc>>
    /\ UNCHANGED <<proxyUrl, opts, injected, clients, calls>>
    /\ UNCHANGED <<durVars, csvVars>>

CallsSetup == TRUE

\* a plausible slip: the constructor returns without the setup step
SkipsSetup == FALSE

\* line 27: whether the constructor runs c.setupClient()
CtorRunsSetup == CallsSetup

\* line 27: the loop is over, call c.setupClient()
CtorCallSetup ==
    /\ pc[0] = "Opts"
    /\ idx > Len(opts)
    /\ pc' = [pc EXCEPT ![0] = IF CtorRunsSetup THEN "s70" ELSE "Return"]
    /\ UNCHANGED <<proxyUrl, opts, injected, idx, applied, c, clients, ret,
                   writes, calls>>
    /\ UNCHANGED <<durVars, csvVars>>

\* line 28: return c, nil
CtorReturn ==
    /\ pc[0] = "Return"
    /\ ret' = [cfg |-> "c", err |-> NilErr]
    /\ pc' = [pc EXCEPT ![0] = "Done"]
    /\ UNCHANGED <<proxyUrl, opts, injected, idx, applied, c, clients, writes,
                   calls>>
    /\ UNCHANGED <<durVars, csvVars>>

\* where setupClient returns to
AfterSetup(t) == IF t = 0 THEN "Return" ELSE "idle"

GuardReads(done) == done

\* a plausible slip: the guard is missing
GuardIgnored(done) == FALSE

\* line 70: the value the guard tests
SetupGuard(done) == GuardReads(done)

\* line 70-72: if c.setupdone { return }
Setup70(t) ==
    /\ pc[t] = "s70"
    /\ pc' = [pc EXCEPT ![t] = IF SetupGuard(c.setupdone) THEN AfterSetup(t)
                                ELSE "s74"]
    /\ UNCHANGED <<proxyUrl, opts, injected, idx, applied, c, clients, ret,
                   writes, calls>>
    /\ UNCHANGED <<durVars, csvVars>>

\* line 74-76: if c.client == nil { c.client = &http.Client{} }
Setup74(t) ==
    /\ pc[t] = "s74"
    /\ IF c.client = Nil
       THEN LET h == Cardinality(DOMAIN clients) + 1 IN
            /\ clients' = [x \in DOMAIN clients \cup {h} |->
                             IF x = h THEN ZeroClient ELSE clients[x]]
            /\ c' = [c EXCEPT !.client = h]
            /\ writes' = Bump(writes, {"alloc"})
       ELSE UNCHANGED <<c, clients, writes>>
    /\ pc' = [pc EXCEPT ![t] = "s77"]
    /\ UNCHANGED <<proxyUrl, opts, injected, idx, applied, ret, calls>>
    /\ UNCHANGED <<durVars, csvVars>>

InstallAlways(h, wasNil) == TRUE

\* a plausible slip: the policy is installed only on a transport created here
InstallOnlyOnOwn(h, wasNil) == wasNil

\* line 77: whether the redirect policy is stored on transport h
InstallsPolicy(h, wasNil) == InstallAlways(h, wasNil)

\* line 77-79: c.client.CheckRedirect = func ... ErrUseLastResponse
Setup77(t) ==
    /\ pc[t] = "s77"
    /\ c.client # Nil
    /\ IF InstallsPolicy(c.client, c.client # Injected)
       THEN /\ clients' = [clients EXCEPT
                              ![c.client].CheckRedirect = "ErrUseLastResponse"]
            /\ writes' = Bump(writes, {"CheckRedirect"})
       ELSE UNCHANGED <<clients, writes>>
    /\ pc' = [pc EXCEPT ![t] = "s80"]
    /\ UNCHANGED <<proxyUrl, opts, injected, idx, applied, c, ret, calls>>
    /\ UNCHANGED <<durVars, csvVars>>

\* line 80: c.setupdone = true
Setup80(t) ==
    /\ pc[t] = "s80"
    /\ c' = [c EXCEPT !.setupdone = TRUE]
    /\ writes' = Bump(writes, {"setupdone"})
    /\ pc' = [pc EXCEPT ![t] = AfterSetup(t)]
    /\ UNCHANGED <<proxyUrl, opts, injected, idx, applied, clients, ret, calls>>
    /\ UNCHANGED <<durVars, csvVars>>

\* a caller that holds the returned config starts reading its fields
CallerRead(t) ==
    /\ t \in Callers
    /\ pc[t] = "idle"
    /\ ret.cfg = "c"
    /\ pc' = [pc EXCEPT ![t] = "reading"]
    /\ UNCHANGED <<proxyUrl, opts, injected, idx, applied, c, clients, ret,
                   writes, calls>>
    /\ UNCHANGED <<durVars, csvVars>>

\* the read is over; it stored nothing
CallerReadDone(t) ==
    /\ t \in Callers
    /\ pc[t] = "reading"
    /\ pc' = [pc EXCEPT ![t] = "idle"]
    /\ UNCHANGED <<proxyUrl, opts, injected, idx, applied, c, clients, ret,
                   writes, calls>>
    /\ UNCHANGED <<durVars, csvVars>>

\* a caller that holds the returned config invokes the setup step on it
CallerSetup(t) ==
    /\ t \in Callers
    /\ pc[t] = "idle"
    /\ ret.cfg = "c"
    /\ calls[t] < MaxCalls
    /\ calls' = [calls EXCEPT ![t] = calls[t] + 1]
    /\ pc' = [pc EXCEPT ![t] = "s70"]
    /\ UNCHANGED <<proxyUrl, opts, injected, idx, applied, c, clients, ret,
                   writes>>
    /\ UNCHANGED <<durVars, csvVars>>

(***************************************************************************)
(* The inputs of the constructor.                                          *)
(***************************************************************************)
ExampleUrl == <<"h", "t", "t", "p", ":", "/", "/", "h", "o", "s", "t", ":",
                "8", "0", "8", "0", "/", "s", "t", "a", "t", "s">>
CsvPath == <<"c", "s", "v">>

OptionValues ==
    {WithStatsPath(CsvPath),
     WithAuthString(<<"a", ":", "p">>), WithAuthString(<<"a", "p">>),
     WithAuthInfo(<<"a">>, <<"p">>),
     WithHttpClient(Nil), WithHttpClient(Injected)}

InjectedSettings ==
    {[CheckRedirect |-> "nil", Timeout |-> 30],
     [CheckRedirect |-> "custom", Timeout |-> 30]}

CfgInit ==
    /\ \/ /\ proxyUrl \in Str(UrlAlphabet, MaxUrlLen) \cup {ExampleUrl}
          /\ opts \in {<<>>, <<WithStatsPath(CsvPath)>>}
          /\ injected = [CheckRedirect |-> "custom", Timeout |-> 30]
       \/ /\ proxyUrl \in {ExampleUrl, ExampleUrl \o <<"/", "/">>}
          /\ opts \in Str(OptionValues, MaxOpts)
          /\ injected \in InjectedSettings
    /\ pc = [t \in Threads |-> IF t = 0 THEN "Parse" ELSE "idle"]
    /\ idx = 1
    /\ applied = <<>>
    /\ c = NewConfig(ZeroURL)
    /\ clients = [h \in {Injected} |-> injected]
    /\ ret = [cfg |-> "none", err |-> NilErr]
    /\ writes = ZeroWrites
    /\ calls = [t \in Callers |-> 0]

Next ==
    \/ CtorParse
    \/ CtorOption
    \/ CtorCallSetup
    \/ CtorReturn
    \/ \E t \in Threads : Setup70(t)
    \/ \E t \in Threads : Setup74(t)
    \/ \E t \in Threads : Setup77(t)
    \/ \E t \in Threads : Setup80(t)
    \/ \E t \in Callers : CallerRead(t)
    \/ \E t \in Callers : CallerReadDone(t)
    \/ \E t \in Callers : CallerSetup(t)


(***************************************************************************)
(* The stats target, <base-url><stats-path> (section 6 of the description; *)
(* the request code is not part of models.go).                             *)
(***************************************************************************)
StatsURL(cfg) == URLString(cfg.URL) \o cfg.StatsPath

(***************************************************************************)
(* Properties of the constructor and of the setup step.                    *)
(***************************************************************************)
\* the error an option returns; it does not depend on the config
OptErr(opt) == RunOption(opt, NewConfig(ZeroURL)).err

\* the transport the options leave in the config: the last WithHttpClient
RECURSIVE LastHandle(_)
LastHandle(os) ==
    IF os = <<>> THEN Nil
    ELSE IF Last(os).kind = "WithHttpClient" THEN Last(os).h
    ELSE LastHandle(Front(os))

EndsWithOneSlash(s) ==
    /\ Len(s) >= 1
    /\ Last(s) = "/"
    /\ Len(s) >= 2 => s[Len(s) - 1] # "/"

\* C1: whenever NewHAProxyConfig has returned a config, whatever the base URL
\* and the options were, its transport is non-nil, the transport's redirect
\* policy is "use the last response", and the setup flag is set.
C1_NoAutoRedirect ==
    ret.cfg = "c" =>
        /\ c.client # Nil
        /\ c.client \in DOMAIN clients
        /\ clients[c.client].CheckRedirect = "ErrUseLastResponse"
        /\ c.setupdone

\* C1 witness: a config built with WithHttpClient(client) followed by
\* WithHttpClient(nil) was returned, with a transport of its own
C1_Witness ==
    /\ ret.cfg = "c"
    /\ opts = <<WithHttpClient(Injected), WithHttpClient(Nil)>>
    /\ c.client \notin {Nil, Injected}

\* C2: options are invoked in the order given, none is invoked after one that
\* failed; when an option fails the constructor returns that option's error
\* and no config, and the setup step has not run: the flag is unset and no
\* transport, injected or not, was touched or created.  A config is returned
\* only if no option failed.
C2_AbortOnFirstFailure ==
    /\ \A i \in 1..Len(applied) : applied[i] = i
    /\ \A i \in 1..(Len(applied) - 1) : OptErr(opts[i]) = NilErr
    /\ ret.cfg = "c" => \A i \in 1..Len(opts) : OptErr(opts[i]) = NilErr
    /\ (\E i \in 1..Len(applied) : OptErr(opts[i]) # NilErr) =>
          /\ pc[0] = "Failed"
          /\ ret = [cfg |-> "nil", err |-> OptErr(opts[Len(applied)])]
          /\ ~c.setupdone
          /\ clients = [h \in {Injected} |-> injected]
          /\ writes["CheckRedirect"] = 0 /\ writes["alloc"] = 0
          /\ \A t \in Callers : pc[t] = "idle" /\ calls[t] = 0

\* C2 witness: the first option failed, the injecting option after it was not
\* invoked, and the constructor returned the error
C2_Witness ==
    /\ opts = <<WithAuthString(<<"a", "p">>), WithHttpClient(Injected)>>
    /\ pc[0] = "Failed"
    /\ applied = <<1>>
    /\ c.client = Nil
    /\ ret.err = Err("malformed auth string", <<"a", "p">>)

\* C3: over all setupClient calls on the config there is exactly one
\* transport initialization: the policy is stored once, the flag once, a
\* transport is created at most once and only if the options injected none;
\* an injected transport stays the config's transport and keeps its other
\* settings.
C3_SetupOnce ==
    /\ writes["CheckRedirect"] <= 1
    /\ writes["setupdone"] <= 1
    /\ writes["alloc"] <= 1
    /\ c.setupdone =>
          /\ writes["CheckRedirect"] = 1
          /\ IF LastHandle(opts) # Nil
             THEN /\ c.client = LastHandle(opts)
                  /\ writes["alloc"] = 0
                  /\ DOMAIN clients = {Injected}
                  /\ clients[Injected] =
                        [injected EXCEPT !.CheckRedirect = "ErrUseLastResponse"]
             ELSE /\ writes["alloc"] = 1
                  /\ c.client \notin {Nil, Injected}
                  /\ clients[Injected] = injected

\* C3 witness: after the constructor's call, a caller has made a further
\* setupClient call on a config with an injected transport, and it returned
C3_Witness ==
    /\ \E t \in Callers : calls[t] >= 1 /\ pc[t] = "idle"
    /\ c.client = Injected
    /\ c.setupdone

\* C4: once NewHAProxyConfig has returned the config, no step of any caller
\* stores to a field of the config or to a setting of its transport.
C4_NoWriteAfterReturn ==
    [][ret.cfg = "c" => (c' = c /\ clients' = clients /\ writes' = writes)]_vars

\* C4 witness: two callers use the returned config at the same time, one in
\* the setup step and one reading
C4_Witness ==
    /\ ret.cfg = "c"
    /\ pc[1] = "s70"
    /\ pc[2] = "reading"
    /\ calls[2] >= 1

\* C5: the base URL stored in a returned config ends with exactly one slash,
\* whatever number of slashes the argument ended with, and the example base
\* URL with stats path csv gives http://host:8080/stats/csv.
C5_OneTrailingSlash ==
    ret.cfg = "c" =>
        /\ EndsWithOneSlash(URLString(c.URL))
        /\ (TrimRight(proxyUrl, "/") = ExampleUrl /\ c.StatsPath = CsvPath) =>
              StatsURL(c) = ExampleUrl \o <<"/">> \o CsvPath

\* C5 witness: the example base URL, given with two trailing slashes and the
\* stats path csv, was built into a config
C5_Witness ==
    /\ ret.cfg = "c"
    /\ proxyUrl = ExampleUrl \o <<"/", "/">>
    /\ c.StatsPath = CsvPath
    /\ StatsURL(c) = ExampleUrl \o <<"/">> \o CsvPath

(***************************************************************************)
(* Unsigned 64-bit arithmetic of package time, on decimal digit sequences  *)
(* (most significant digit first, no leading zeros, zero is <<0>>): the    *)
(* values ParseDuration compares against 1<<63 do not fit 32-bit integers. *)
(* Each operator binds its operands once ({x \in {x0}}),                   *)
(* so that an operand is computed a single time however often it is read.  *)
(***************************************************************************)
DigitChars == <<"0", "1", "2", "3", "4", "5", "6", "7", "8", "9">>

IsDigit(ch) == \E i \in 1..10 : DigitChars[i] = ch

DigitVal(ch) == (CHOOSE i \in 1..10 : DigitChars[i] = ch) - 1

BigZero == <<0>>

RECURSIVE Norm(_)
Norm(a) ==
    IF a = <<>> THEN BigZero
    ELSE IF a[1] = 0 /\ Len(a) > 1 THEN Norm(Tail(a)) ELSE a

BigLess(a0, b0) ==
    \E a \in {a0} : \E b \in {b0} :
        \/ Len(a) < Len(b)
        \/ /\ Len(a) = Len(b)
           /\ \E i \in 1..Len(a) :
                 a[i] < b[i] /\ \A j \in 1..(i - 1) : a[j] = b[j]

\* digit k of a, counted from the least significant one (k = 0)
DigitAt(a, k) == IF k < Len(a) THEN a[Len(a) - k] ELSE 0

RECURSIVE NatDigits(_)
NatDigits(n) == IF n < 10 THEN <<n>> ELSE Append(NatDigits(n \div 10), n % 10)

RECURSIVE AddFrom(_, _, _, _)
AddFrom(a, b, k, carry) ==
    IF k >= Len(a) /\ k >= Len(b) THEN <<carry>>
    ELSE LET t == DigitAt(a, k) + DigitAt(b, k) + carry
         IN  Append(AddFrom(a, b, k + 1, t \div 10), t % 10)

BigAdd(a0, b0) ==
    CHOOSE r \in {Norm(AddFrom(a, b, 0, 0)) : a \in {a0}, b \in {b0}} : TRUE

RECURSIVE MulFrom(_, _, _, _)
MulFrom(a, m, k, carry) ==
    IF k >= Len(a) THEN NatDigits(carry)
    ELSE LET t == DigitAt(a, k) * m + carry
         IN  Append(MulFrom(a, m, k + 1, t \div 10), t % 10)

\* a * m * 10^e
BigMul(a0, m, e) ==
    CHOOSE r \in {Norm(MulFrom(a, m, 0, 0) \o [i \in 1..e |-> 0]) : a \in {a0}} :
        TRUE

\* a / 10^k, rounded down
BigDropLow(a0, k) ==
    CHOOSE r \in {IF Len(a) <= k THEN BigZero ELSE SubSeq(a, 1, Len(a) - k) :
                    a \in {a0}} : TRUE

\* a mod 10^k, as k digits
BigLow(a0, k) ==
    CHOOSE r \in {[i \in 1..k |-> DigitAt(a, k - i)] : a \in {a0}} : TRUE

\* a / m and a % m for a small m, by long division
RECURSIVE DivFrom(_, _, _, _, _)
DivFrom(a, m, i, rem0, q0) ==
    CHOOSE r \in
        {IF i > Len(a) THEN [q |-> Norm(q), r |-> rem]
         ELSE DivFrom(a, m, i + 1, (rem * 10 + a[i]) % m,
                      Append(q, (rem * 10 + a[i]) \div m)) :
            rem \in {rem0}, q \in {q0}} : TRUE

BigDivMod(a0, m) ==
    CHOOSE r \in {DivFrom(a, m, 1, 0, <<>>) : a \in {a0}} : TRUE

\* 1<<63 and 1<<63/10
TwoTo63 == <<9, 2, 2, 3, 3, 7, 2, 0, 3, 6, 8, 5, 4, 7, 7, 5, 8, 0, 8>>
TwoTo63Div10 == BigDropLow(TwoTo63, 1)

(***************************************************************************)
(* time.Duration: a signed count of nanoseconds.                           *)
(***************************************************************************)
ZeroDuration == [neg |-> FALSE, mag |-> BigZero]

MkDuration(neg, mag) == [neg |-> neg /\ mag # BigZero, mag |-> mag]

\* unitMap: each unit as m * 10^e nanoseconds
UnitNames == {<<"n", "s">>, <<"u", "s">>, <<"m", "s">>, <<"s">>, <<"m">>, <<"h">>}

UnitOf(u) ==
    CASE u = <<"n", "s">> -> [m |-> 1, e |-> 0]
      [] u = <<"u", "s">> -> [m |-> 1, e |-> 3]
      [] u = <<"m", "s">> -> [m |-> 1, e |-> 6]
      [] u = <<"s">> -> [m |-> 1, e |-> 9]
      [] u = <<"m">> -> [m |-> 6, e |-> 10]
      [] u = <<"h">> -> [m |-> 36, e |-> 11]

\* leadingInt: consume [0-9]*, failing once the value passes 1<<63
RECURSIVE leadingIntFrom(_, _, _)
leadingIntFrom(s, i, x0) ==
    CHOOSE r \in
        {IF i > Len(s) \/ ~IsDigit(s[i])
         THEN [x |-> x, rem |-> Drop(s, i - 1), ok |-> TRUE]
         ELSE IF BigLess(TwoTo63Div10, x)
         THEN [x |-> BigZero, rem |-> <<>>, ok |-> FALSE]
         ELSE LET y == BigAdd(BigMul(x, 1, 1), <<DigitVal(s[i])>>)
              IN  IF BigLess(TwoTo63, y)
                  THEN [x |-> BigZero, rem |-> <<>>, ok |-> FALSE]
                  ELSE leadingIntFrom(s, i + 1, y) :
            x \in {x0}} : TRUE

leadingInt(s0) ==
    CHOOSE r \in {leadingIntFrom(s, 1, BigZero) : s \in {s0}} : TRUE

\* the length of the longest prefix of s made of characters satisfying the
\* test selected by digits: [0-9] when TRUE, a unit character when FALSE
RECURSIVE SpanLen(_, _, _)
SpanLen(s, i, digits) ==
    IF i > Len(s) THEN Len(s)
    ELSE IF digits /\ IsDigit(s[i]) THEN SpanLen(s, i + 1, digits)
    ELSE IF ~digits /\ ~(s[i] = "." \/ IsDigit(s[i])) THEN SpanLen(s, i + 1, digits)
    ELSE i - 1

\* leadingFraction, for fractions short enough not to overflow: the digits
\* as a number f, their count k (scale = 10^k) and the rest
leadingFraction(s0) ==
    CHOOSE r \in
        {[f |-> Norm([i \in 1..k |-> DigitVal(s[i])]), k |-> k, rem |-> Drop(s, k)] :
            s \in {s0}, k \in {SpanLen(s0, 1, TRUE)}} : TRUE

\* the loop of ParseDuration: each round consumes one number and one unit
\* one round: the number was read as li (digits) and lf (fraction)
RECURSIVE ParseLoop(_, _)
ParseRound(s, d, li, lf) ==
    LET pre == Len(li.rem) # Len(s)
        post == lf.k > 0
        i == SpanLen(lf.rem, 1, FALSE)
        u == SubSeq(lf.rem, 1, i)
    IN
    IF ~pre /\ ~post THEN [ok |-> FALSE, d |-> BigZero]
    ELSE IF i = 0 \/ u \notin UnitNames THEN [ok |-> FALSE, d |-> BigZero]
    ELSE
    LET unit == UnitOf(u)
        v1 == BigMul(li.x, unit.m, unit.e)
        \* float64(f) * (float64(unit) / scale): exact while 10^k divides
        \* the unit, which holds for ms, s, m, h and k <= 6
        v2 == BigAdd(v1, BigDropLow(BigMul(lf.f, unit.m, unit.e), lf.k))
        d2 == BigAdd(d, v2)
    IN
    IF BigLess(TwoTo63, v1) \/ BigLess(TwoTo63, v2) \/ BigLess(TwoTo63, d2)
    THEN [ok |-> FALSE, d |-> BigZero]
    ELSE ParseLoop(Drop(lf.rem, i), d2)

\* the loop of ParseDuration: each round consumes one number and one unit
ParseLoop(s0, d0) ==
    CHOOSE r \in
        {IF s = <<>> THEN [ok |-> TRUE, d |-> d]
         ELSE IF ~(s[1] = "." \/ IsDigit(s[1])) THEN [ok |-> FALSE, d |-> BigZero]
         ELSE CHOOSE q \in
                {IF ~li.ok THEN [ok |-> FALSE, d |-> BigZero]
                 ELSE CHOOSE p \in
                        {ParseRound(s, d, li, lf) :
                            lf \in {IF li.rem # <<>> /\ li.rem[1] = "."
                                    THEN leadingFraction(Tail(li.rem))
                                    ELSE [f |-> BigZero, k |-> 0, rem |-> li.rem]}} :
                        TRUE :
                    li \in {leadingInt(s)}} : TRUE :
            s \in {s0}, d \in {d0}} : TRUE

\* time.ParseDuration: (duration, ok); the duration is zero when not ok
ParseDuration(s) ==
    LET signed == s # <<>> /\ s[1] \in {"-", "+"}
        neg == signed /\ s[1] = "-"
        body == IF signed THEN Tail(s) ELSE s
    IN
    IF body = <<"0">> THEN [d |-> ZeroDuration, ok |-> TRUE]
    ELSE IF body = <<>> THEN [d |-> ZeroDuration, ok |-> FALSE]
    ELSE
    LET r == ParseLoop(body, BigZero) IN
    IF ~r.ok THEN [d |-> ZeroDuration, ok |-> FALSE]
    ELSE IF neg THEN [d |-> MkDuration(TRUE, r.d), ok |-> TRUE]
    ELSE IF ~BigLess(r.d, TwoTo63) THEN [d |-> ZeroDuration, ok |-> FALSE]
    ELSE [d |-> MkDuration(FALSE, r.d), ok |-> TRUE]

(***************************************************************************)
(* Duration: UnmarshalCSV, MarshalCSV, String.                             *)
(***************************************************************************)
FmtInt(a) == [i \in 1..Len(a) |-> DigitChars[a[i] + 1]]

RECURSIVE StripZeros(_)
StripZeros(a) ==
    IF a # <<>> /\ Last(a) = 0 THEN StripZeros(Front(a)) ELSE a

\* fmtFrac: the fraction v mod 10^prec without trailing zeros, with its point
FmtFrac(v, prec) ==
    LET digits == StripZeros(BigLow(v, prec)) IN
    IF digits = <<>> THEN <<>> ELSE <<".">> \o FmtInt(digits)

\* the micro sign U+00B5, written u
MicroSign == "u"

\* time.Duration.String
FormatDuration(d) ==
    LET u == d.mag
        sign == IF d.neg THEN <<"-">> ELSE <<>>
    IN
    IF u = BigZero THEN <<"0", "s">>
    ELSE IF Len(u) <= 9
    THEN LET prec == IF Len(u) <= 3 THEN 0 ELSE IF Len(u) <= 6 THEN 3 ELSE 6
             unit == IF Len(u) <= 3 THEN <<"n", "s">>
                     ELSE IF Len(u) <= 6 THEN <<MicroSign, "s">>
                     ELSE <<"m", "s">>
         IN  sign \o FmtInt(BigDropLow(u, prec)) \o FmtFrac(u, prec) \o unit
    ELSE LET secs == BigDivMod(BigDropLow(u, 9), 60)
             mins == BigDivMod(secs.q, 60)
             s == FmtInt(NatDigits(secs.r)) \o FmtFrac(u, 9) \o <<"s">>
             m == IF secs.q = BigZero THEN <<>>
                  ELSE FmtInt(NatDigits(mins.r)) \o <<"m">>
             h == IF mins.q = BigZero THEN <<>> ELSE FmtInt(mins.q) \o <<"h">>
         IN  sign \o h \o m \o s

\* fmt.Sprintf("%d", n) of a signed count
FormatInt(neg, mag) == (IF neg THEN <<"-">> ELSE <<>>) \o FmtInt(mag)

\* a plausible slip: the encoder writes seconds, the unit the decoder reads
MarshalSeconds(d) == FormatInt(d.neg /\ Len(d.mag) > 9, BigDropLow(d.mag, 9))

MarshalNanoseconds(d) == FormatInt(d.neg, d.mag)

\* line 207-209: fmt.Sprintf("%d", date.Nanoseconds())
MarshalCSV(d) == MarshalNanoseconds(d)

\* line 212-214: time.Duration(date.Nanoseconds()).String()
String(d) == FormatDuration(d)

IsEmpty(csv) == csv = <<>>

\* a plausible slip: the empty cell is not singled out
IsEmptyNever(csv) == FALSE

\* line 196: csv == ""
EmptyCell(csv) == IsEmpty(csv)

\* line 195-205: the Duration after the call, and whether it returned nil
UnmarshalCSV(d, csv) ==
    IF EmptyCell(csv) THEN [date |-> d, ok |-> TRUE]
    ELSE LET r == ParseDuration(csv \o <<"s">>)
         IN  [date |-> r.d, ok |-> r.ok]

\* a Duration field decodes the next cell
DurUnmarshalCSV ==
    /\ pending # <<>>
    /\ LET r == UnmarshalCSV(date, Head(pending)) IN
       /\ date' = r.date
       /\ derr' = ~r.ok
    /\ cell' = Head(pending)
    /\ pending' = Tail(pending)
    /\ decodes' = decodes + 1
    /\ prev' = date
    /\ out' = <<>>
    /\ shown' = <<>>
    /\ UNCHANGED <<cfgVars, csvVars>>

\* the Duration is encoded
DurMarshalCSV ==
    /\ out = <<>>
    /\ out' = MarshalCSV(date)
    /\ UNCHANGED <<pending, decodes, cell, prev, date, derr, shown>>
    /\ UNCHANGED <<cfgVars, csvVars>>

\* the Duration is rendered
DurString ==
    /\ shown = <<>>
    /\ shown' = String(date)
    /\ UNCHANGED <<pending, decodes, cell, prev, date, derr, out>>
    /\ UNCHANGED <<cfgVars, csvVars>>

\* longest enumerated cell
MaxCellLen == 3

CellAlphabet == {"0", "1", "9", "m", "h", "-", ".", "x"}

\* cells around the largest number of seconds an int64 of nanoseconds holds,
\* and one past 1<<63
BoundaryCells ==
    {<<"9", "2", "2", "3", "3", "7", "2", "0", "3", "6">>,
     <<"9", "2", "2", "3", "3", "7", "2", "0", "3", "7">>,
     <<"0", "9", "2", "2", "3", "3", "7", "2", "0", "3", "6">>,
     <<"9", "2", "2", "3", "3", "7", "2", "0", "3", "6", "8", "5", "4", "7",
       "7", "5", "8", "0", "8", "0">>}

Cells == Str(CellAlphabet, MaxCellLen) \cup BoundaryCells

\* the cells a Duration that was already decoded is decoded from again
RedecodeCells == {<<>>, <<"1">>, <<"x">>}

DurIdle ==
    /\ pending = <<>>
    /\ decodes = 0
    /\ cell = <<>>
    /\ prev = ZeroDuration
    /\ date = ZeroDuration
    /\ derr = FALSE
    /\ out = <<>>
    /\ shown = <<>>

\* a zero-valued Duration and the cells it will be decoded from
DurCells ==
    /\ pending \in {<<a>> : a \in Cells}
                   \cup {<<a, b>> : a \in Cells, b \in RedecodeCells}
    /\ decodes = 0
    /\ cell = <<>>
    /\ prev = ZeroDuration
    /\ date = ZeroDuration
    /\ derr = FALSE
    /\ out = <<>>
    /\ shown = <<>>

DurNext == DurUnmarshalCSV \/ DurMarshalCSV \/ DurString

(***************************************************************************)
(* Properties of the Duration conversions.                                 *)
(***************************************************************************)
\* a non-negative integer string: one or more decimal digits
IsDigits(s) == s # <<>> /\ \A i \in 1..Len(s) : IsDigit(s[i])

\* a decimal number: an optional sign, digits, at most one point among them
IsNumber(s) ==
    LET body == IF s # <<>> /\ s[1] \in {"-", "+"} THEN Tail(s) ELSE s IN
    /\ \E i \in 1..Len(body) : IsDigit(body[i])
    /\ \A i \in 1..Len(body) : IsDigit(body[i]) \/ body[i] = "."
    /\ Cardinality({i \in 1..Len(body) : body[i] = "."}) <= 1

\* the value of a digit string
CellValue(s) == Norm([i \in 1..Len(s) |-> DigitVal(s[i])])

\* the decimal string of the value of s times 1e9
TimesBillion(s) ==
    IF CellValue(s) = BigZero THEN <<"0">>
    ELSE FmtInt(CellValue(s)) \o [i \in 1..9 |-> "0"]

\* the most seconds an int64 count of nanoseconds holds: (1<<63 - 1) / 1e9
MaxSeconds == <<9, 2, 2, 3, 3, 7, 2, 0, 3, 6>>

\* C6, as amended: for every digit string s of value at most 9223372036,
\* UnmarshalCSV(s) succeeds and a following MarshalCSV returns the decimal
\* string of the value times 1e9, which differs from s unless s is "0"; for a
\* larger value UnmarshalCSV returns an error.
C6_SecondsInNanosecondsOut ==
    (decodes >= 1 /\ IsDigits(cell)) =>
        IF BigLess(MaxSeconds, CellValue(cell))
        THEN derr
        ELSE /\ ~derr
             /\ out # <<>> =>
                   /\ out = TimesBillion(cell)
                   /\ out = cell <=> cell = <<"0">>

\* C6 witness: the largest representable number of seconds was decoded and
\* encoded as nanoseconds
C6_Witness ==
    /\ decodes = 1
    /\ cell = <<"9", "2", "2", "3", "3", "7", "2", "0", "3", "6">>
    /\ ~derr
    /\ out = cell \o [i \in 1..9 |-> "0"]

\* C6 as stated: for every digit string s, UnmarshalCSV(s) succeeds, and
\* MarshalCSV returns the value times 1e9, never s itself.
C6_Original ==
    (decodes >= 1 /\ IsDigits(cell)) =>
        /\ ~derr
        /\ out # <<>> => (out = TimesBillion(cell) /\ out # cell)

\* C7 as stated: every non-empty cell that is not a number is a decode error
\* and yields no duration.
C7_NonNumericIsError ==
    (decodes >= 1 /\ cell # <<>> /\ ~IsNumber(cell)) =>
        (derr /\ date = ZeroDuration)

\* C8, as amended: decoding an empty cell never fails and leaves the Duration
\* as it was; a Duration that held zero stays zero and String renders it "0s".
C8_EmptyCellKeepsValue ==
    (decodes >= 1 /\ cell = <<>>) =>
        /\ ~derr
        /\ date = prev
        /\ (prev = ZeroDuration /\ shown # <<>>) => shown = <<"0", "s">>

\* C8 witness: a zero Duration decoded an empty cell and was rendered
C8_Witness ==
    /\ decodes = 1
    /\ cell = <<>>
    /\ ~derr
    /\ shown = <<"0", "s">>

\* C8 as stated: decoding an empty cell never fails and yields the zero
\* duration, rendered "0s", whatever the Duration held before.
C8_Original ==
    (decodes >= 1 /\ cell = <<>>) =>
        /\ ~derr
        /\ date = ZeroDuration
        /\ shown # <<>> => shown = <<"0", "s">>

(***************************************************************************)
(* Statistic: the record schema, and header-driven decoding of a payload.  *)
(***************************************************************************)
\* EntryType and its four constants
Frontend == 0
Backend == 1
Server == 2
Socket == 3
EntryTypes == {Frontend, Backend, Server, Socket}

\* the fields of Statistic in declaration order: name, type, csv tag
StatisticFields ==
    <<<<"BackendName", "string", "# pxname">>,
     <<"FrontendName", "string", "svname">>,
     <<"QueueCurrent", "uint64", "qcur">>,
     <<"QueueMax", "uint64", "qmax">>,
     <<"SessionsCurrent", "uint64", "scur">>,
     <<"SessionsMax", "uint64", "smax">>,
     <<"SessionLimit", "uint64", "slim">>,
     <<"SessionsTotal", "uint64", "stot">>,
     <<"BytesIn", "uint64", "bin">>,
     <<"BytesOut", "uint64", "bout">>,
     <<"DeniedRequests", "uint64", "dreq">>,
     <<"DeniedResponses", "uint64", "dresp">>,
     <<"ErrorsRequests", "uint64", "ereq">>,
     <<"ErrorsConnections", "uint64", "econ">>,
     <<"ErrorsResponses", "uint64", "eresp">>,
     <<"WarningsRetries", "uint64", "wretr">>,
     <<"WarningsDispatches", "uint64", "wredis">>,
     <<"Status", "string", "status">>,
     <<"Weight", "uint64", "weight">>,
     <<"IsActive", "uint64", "act">>,
     <<"IsBackup", "uint64", "bck">>,
     <<"CheckFailed", "uint64", "chkfail">>,
     <<"CheckDowned", "uint64", "chkdown">>,
     <<"StatusLastChanged", "Duration", "lastchg">>,
     <<"Downtime", "Duration", "downtime">>,
     <<"QueueLimit", "uint64", "qlimit">>,
     <<"ProcessID", "uint64", "pid">>,
     <<"ProxyID", "uint64", "iid">>,
     <<"ServiceID", "uint64", "sid">>,
     <<"Throttle", "uint64", "throttle">>,
     <<"LBTotal", "uint64", "lbtot">>,
     <<"Tracked", "uint64", "tracked">>,
     <<"Type", "EntryType", "type">>,
     <<"Rate", "uint64", "rate">>,
     <<"RateLimit", "uint64", "rate_lim">>,
     <<"RateMax", "uint64", "rate_max">>,
     <<"CheckStatus", "string", "check_status">>,
     <<"CheckCode", "string", "check_code">>,
     <<"CheckDuration", "uint64", "check_duration">>,
     <<"HTTPResponse1xx", "uint64", "hrsp_1xx">>,
     <<"HTTPResponse2xx", "uint64", "hrsp_2xx">>,
     <<"HTTPResponse3xx", "uint64", "hrsp_3xx">>,
     <<"HTTPResponse4xx", "uint64", "hrsp_4xx">>,
     <<"HTTPResponse5xx", "uint64", "hrsp_5xx">>,
     <<"HTTPResponseOther", "uint64", "hrsp_other">>,
     <<"CheckFailedDets", "uint64", "hanafail">>,
     <<"RequestRate", "uint64", "req_rate">>,
     <<"RequestRateMax", "uint64", "req_rate_max">>,
     <<"RequestTotal", "uint64", "req_tot">>,
     <<"AbortedByClient", "uint64", "cli_abrt">>,
     <<"AbortedByServer", "uint64", "srv_abrt">>,
     <<"CompressedBytesIn", "uint64", "comp_in">>,
     <<"CompressedBytesOut", "uint64", "comp_out">>,
     <<"CompressedBytesBypassed", "uint64", "comp_byp">>,
     <<"CompressedResponses", "uint64", "comp_rsp">>,
     <<"LastSession", "Duration", "lastsess">>,
     <<"LastCheck", "string", "last_chk">>,
     <<"LastAgentCheck", "string", "last_agt">>,
     <<"AvgQueueTime", "uint64", "qtime">>,
     <<"AvgConnectTime", "uint64", "ctime">>,
     <<"AvgResponseTime", "uint64", "rtime">>,
     <<"AvgTotalTime", "uint64", "ttime">>,
     <<"AgentStatus", "uint64", "agent_status">>,
     <<"AgentCode", "uint64", "agent_code">>,
     <<"AgentDuration", "uint64", "agent_duration">>,
     <<"CheckDesc", "string", "check_desc">>,
     <<"AgentDesc", "string", "agent_desc">>,
     <<"CheckRise", "uint64", "check_rise">>,
     <<"CheckFall", "uint64", "check_fall">>,
     <<"CheckHealth", "uint64", "check_health">>,
     <<"AgentRise", "uint64", "agent_rise">>,
     <<"AgentFall", "uint64", "agent_fall">>,
     <<"AgentHealth", "uint64", "agent_health">>,
     <<"Address", "string", "addr">>,
     <<"Cookie", "uint64", "cookie">>,
     <<"Mode", "string", "mode">>,
     <<"LBAlgorithm", "string", "algo">>,
     <<"ConnRate", "uint64", "conn_rate">>,
     <<"ConnRateMax", "uint64", "conn_rate_max">>,
     <<"ConnTotal", "uint64", "conn_tot">>,
     <<"Intercepted", "uint64", "intercepted">>,
     <<"DeniedCon", "uint64", "dcon">>,
     <<"DeniedSes", "uint64", "dses">>,
     <<"Wrew", "uint64", "wrew">>,
     <<"Connect", "uint64", "connect">>,
     <<"Reuse", "uint64", "reuse">>,
     <<"CacheLookups", "uint64", "cache_lookups">>,
     <<"CacheHits", "uint64", "cache_hits">>,
     <<"IdleConAvail", "uint64", "srv_icur">>,
     <<"IdleConLimit", "uint64", "src_ilim">>,
     <<"QtimeMax", "uint64", "qtime_max">>,
     <<"CtimeMax", "uint64", "ctime_max">>,
     <<"RtimeMax", "uint64", "rtime_max">>,
     <<"TtimeMax", "uint64", "ttime_max">>,
     <<"InternalErr", "uint64", "eint">>,
     <<"IdleConnCur", "uint64", "idle_conn_cur">>,
     <<"SafeConnCur", "uint64", "safe_conn_cur">>,
     <<"UsedConnCur", "uint64", "used_conn_cur">>,
     <<"NeedConnEst", "uint64", "need_conn_est">>>>

NumFields == Len(StatisticFields)

FieldName(i) == StatisticFields[i][1]

KindOf(i) == StatisticFields[i][2]

\* the position of a field in the declaration
FieldIndex(name) == CHOOSE i \in 1..NumFields : FieldName(i) = name

\* the tag is copied from the field declared just before: a plausible slip
TagOfNeighbour(i) ==
    IF FieldName(i) = "Downtime" THEN StatisticFields[i - 1][3]
    ELSE StatisticFields[i][3]

TagDeclared(i) == StatisticFields[i][3]

\* the column a field is decoded from: its csv tag
TagOf(i) == TagDeclared(i)

\* the value of a short digit string
RECURSIVE Atoi(_)
Atoi(s) == IF s = <<>> THEN 0 ELSE Atoi(Front(s)) * 10 + DigitVal(Last(s))

\* EntryType is a plain int with no UnmarshalCSV of its own: the cell is
\* read as an integer, and any integer is an EntryType
DecodeEntryType(s) ==
    IF s = <<>> THEN [ok |-> TRUE, val |-> Frontend]
    ELSE IF IsDigits(s) THEN [ok |-> TRUE, val |-> Atoi(s)]
    ELSE IF s[1] = "-" /\ IsDigits(Tail(s)) THEN [ok |-> TRUE, val |-> 0 - Atoi(Tail(s))]
    ELSE [ok |-> FALSE, val |-> Frontend]

\* one cell into a field of the given type
DecodeCell(kind, s) ==
    CASE kind = "string" -> [ok |-> TRUE, val |-> s]
      [] kind = "uint64" ->
            IF s = <<>> THEN [ok |-> TRUE, val |-> 0]
            ELSE IF IsDigits(s) THEN [ok |-> TRUE, val |-> Atoi(s)]
            ELSE [ok |-> FALSE, val |-> 0]
      [] kind = "Duration" ->
            LET r == UnmarshalCSV(ZeroDuration, s)
            IN  [ok |-> r.ok, val |-> r.date]
      [] kind = "EntryType" -> DecodeEntryType(s)

\* position of a column in the header row, 0 when the payload lacks it
ColumnIndex(hdr, col) ==
    IF \E i \in 1..Len(hdr) : hdr[i] = col
    THEN CHOOSE i \in 1..Len(hdr) : hdr[i] = col /\ \A j \in 1..(i - 1) : hdr[j] # col
    ELSE 0

\* the cell a field is decoded from: the one under its column, or the empty
\* cell when the payload has no such column
CellFor(hdr, row, i) ==
    IF ColumnIndex(hdr, TagOf(i)) = 0 THEN <<>>
    ELSE row[ColumnIndex(hdr, TagOf(i))]

\* one data row into a Statistic (its field values in declaration order)
DecodeRow(hdr, row) ==
    IF Len(row) # Len(hdr)
    THEN [ok |-> FALSE, stat |-> <<>>]
    ELSE CHOOSE r \in
            {[ok |-> \A i \in 1..NumFields : cells[i].ok,
              stat |-> [i \in 1..NumFields |-> cells[i].val]] :
                cells \in {[i \in 1..NumFields |->
                              DecodeCell(KindOf(i), CellFor(hdr, row, i))]}} : TRUE

\* the whole payload: the records in row order, or an error and no record
DecodeAll(hdr, rws) ==
    CHOOSE r \in
        {IF \A i \in 1..Len(rws) : recs[i].ok
         THEN [ok |-> TRUE, stats |-> [i \in 1..Len(rws) |-> recs[i].stat]]
         ELSE [ok |-> FALSE, stats |-> <<>>] :
            recs \in {[i \in 1..Len(rws) |-> DecodeRow(hdr, rws[i])]}} : TRUE

\* the payload is decoded into Statistics
CsvDecode ==
    /\ ~cdone
    /\ LET r == DecodeAll(header, rows) IN
       /\ stats' = r.stats
       /\ cerr' = ~r.ok
    /\ cdone' = TRUE
    /\ UNCHANGED <<header, rows>>
    /\ UNCHANGED <<cfgVars, durVars>>

\* most data rows of an enumerated payload
MaxRows == 2

\* the columns of the enumerated payloads, one of each field type, in the
\* order HAProxy emits them
SampleColumns == <<"# pxname", "qcur", "lastchg", "type">>

\* the enumerated rows, their cells in the order of SampleColumns: every
\* type ordinal from 0 to 4, empty cells, and a lastchg cell that is no number
SampleRows ==
    {<< <<"w">>, <<"7">>, <<"5">>, <<"0">> >>,
     << <<>>, <<"7">>, <<>>, <<"1">> >>,
     << <<"w">>, <<>>, <<"5">>, <<"2">> >>,
     << <<"w">>, <<"7">>, <<>>, <<"3">> >>,
     << <<"w">>, <<"7">>, <<"5">>, <<"4">> >>,
     << <<"w">>, <<"7">>, <<"x">>, <<"0">> >>,
     << <<>>, <<>>, <<>>, <<>> >>}

\* the orders of n columns
Orders(n) ==
    {p \in [1..n -> 1..n] : \A i, j \in 1..n : p[i] = p[j] => i = j}

\* a payload: the sample columns in some order, and rows of cells laid out
\* in that order
CsvPayloads ==
    /\ \E p \in Orders(Len(SampleColumns)) :
       \E k \in 1..MaxRows :
       \E vals \in [1..k -> SampleRows] :
          /\ header = [j \in 1..Len(SampleColumns) |-> SampleColumns[p[j]]]
          /\ rows = [i \in 1..k |->
                       [j \in 1..Len(SampleColumns) |-> vals[i][p[j]]]]
    /\ stats = <<>>
    /\ cerr = FALSE
    /\ cdone = FALSE

CsvNext == CsvDecode

(***************************************************************************)
(* Properties of the decoding.                                             *)
(***************************************************************************)
\* the type cell of data row i
TypeCell(i) == rows[i][ColumnIndex(header, "type")]

\* the payload with its columns put back in the order of SampleColumns
CanonRows ==
    [i \in 1..Len(rows) |->
        [j \in 1..Len(SampleColumns) |->
            rows[i][ColumnIndex(header, SampleColumns[j])]]]

\* each column name of the schema selects exactly one field of Statistic
OneFieldPerColumn ==
    \A i, j \in 1..NumFields :
        i # j => (TagOf(i) # TagOf(j) /\ FieldName(i) # FieldName(j))

\* C9 as stated: type cells 0, 1, 2, 3 decode to Frontend, Backend, Server,
\* Socket; a type cell holding another ordinal fails the whole decode; no
\* decoded Statistic carries an EntryType outside the four variants.
C9_TypeIsClosedEnum ==
    cdone =>
        /\ (\E i \in 1..Len(rows) :
               IsDigits(TypeCell(i)) /\ Atoi(TypeCell(i)) \notin EntryTypes) => cerr
        /\ \A i \in 1..Len(stats) : stats[i][FieldIndex("Type")] \in EntryTypes
        /\ ~cerr => \A i \in 1..Len(rows) :
               /\ TypeCell(i) = <<"0">> => stats[i][FieldIndex("Type")] = Frontend
               /\ TypeCell(i) = <<"1">> => stats[i][FieldIndex("Type")] = Backend
               /\ TypeCell(i) = <<"2">> => stats[i][FieldIndex("Type")] = Server
               /\ TypeCell(i) = <<"3">> => stats[i][FieldIndex("Type")] = Socket

CfgIdle ==
    /\ proxyUrl = <<>>
    /\ opts = <<>>
    /\ injected = ZeroClient
    /\ pc = [t \in Threads |-> IF t = 0 THEN "Parse" ELSE "idle"]
    /\ idx = 1
    /\ applied = <<>>
    /\ c = NewConfig(ZeroURL)
    /\ clients = [h \in {Injected} |-> injected]
    /\ ret = [cfg |-> "none", err |-> NilErr]
    /\ writes = ZeroWrites
    /\ calls = [t \in Callers |-> 0]

CsvIdle ==
    /\ header = <<>>
    /\ rows = <<>>
    /\ stats = <<>>
    /\ cerr = FALSE
    /\ cdone = FALSE

Init == CfgInit /\ DurIdle /\ CsvIdle

\* the constructor, the setup step and the callers of a built config
Spec == Init /\ [][Next]_vars

DurInit == CfgIdle /\ DurCells /\ CsvIdle

\* a Duration field decoded, encoded and rendered
DurSpec == DurInit /\ [][DurNext]_vars

CsvInit == CfgIdle /\ DurIdle /\ CsvPayloads

\* a stats payload decoded into Statistics
CsvSpec == CsvInit /\ [][CsvNext]_vars

====
